---- MODULE Spec2Model ----
(***************************************************************************)
(* Message lifecycle of the chat backend: the message routes               *)
(* (routes/message.js, src/unnamed/part_007), the Message model            *)
(* (src/unnamed/part_012), the socket send handlers (src/server.js), the    *)
(* group access middleware (src/unnamed/part_001) and the encryption        *)
(* helpers (src/utils/security.js).                                         *)
(*                                                                         *)
(* Optional values (a JavaScript value that may be undefined/null) are      *)
(* tuples: <<>> is undefined/null, <<v>> is the value v.                    *)
(* Mongoose documents are records; a document's _id is its position in the  *)
(* collection.  Time is a counter of milliseconds advanced by Tick.         *)
(***************************************************************************)
EXTENDS Integers, Sequences, FiniteSets, TLC

\* ---------------------------------------------------------------- bounds
MaxMsgs == 2
MaxTime == 1

\* ------------------------------------------------------------- universes
None == <<>>
Some(v) == <<v>>

Users == {"u1", "u2"}
Ghost == "ghost"
NoId == "none"
GroupIds == {"g1", "g2"}
Plaintexts == {"p1", "p2"}
Delays == {0, 1}

\* users carry the key written by generateEncryptionKey (32 random bytes, hex)
generateEncryptionKey(u) == <<"key", u>>
UserDoc(u) == [_id |-> u, encryptionKey |-> generateEncryptionKey(u)]
FindUser(id) == IF id \in Users THEN Some(UserDoc(id)) ELSE None

\* ------------------------------------------------- utils/security.js
KeyValid(key) == \E u \in Users : key = generateEncryptionKey(u)

\* JavaScript strings beside the texts: one that is a surrogate with no pair,
\* and the one character U+FFFD
LoneSurrogate == "D800"
ReplacementChar == "FFFD"
Strings == Plaintexts \cup {LoneSurrogate, ReplacementChar}

\* the 'utf8' input encoding of cipher.update: the bytes of the string, a
\* surrogate with no pair written as the bytes of U+FFFD
utf8Write(string) ==
  <<"utf8", IF string = LoneSurrogate THEN ReplacementChar ELSE string>>

\* the 'utf8' output encoding of decipher.update and decipher.final
utf8Slice(bytes) == bytes[2]

\* AES-256-GCM, symbolically: the ciphertext and the tag are bound to the
\* bytes of the plaintext, the key and the iv; iv is the random 16 bytes of
\* this call.  Bytes stand for their 'hex' string, which is one-to-one.
encryptMessage(message, key, iv) ==
  [iv        |-> Some(iv),
   encrypted |-> Some(<<"ct", utf8Write(message), key, iv>>),
   authTag   |-> Some(<<"tag", utf8Write(message), key, iv>>)]

\* a decipher whose final() does not compare the tag: the bytes decrypted
\* under the key, those of the plaintext only for the key and iv of the cipher
decryptMessageUnauthenticated(encryptedData, key) ==
  IF encryptedData.iv = None \/ encryptedData.authTag = None
       \/ encryptedData.encrypted = None
  THEN [ok |-> FALSE, value |-> "TypeError"]
  ELSE LET ct == encryptedData.encrypted[1]
       IN IF ct[3] = key /\ ct[4] = encryptedData.iv[1]
          THEN [ok |-> TRUE, value |-> utf8Slice(ct[2])]
          ELSE [ok |-> TRUE, value |-> ReplacementChar]

\* Buffer.from(undefined, 'hex') throws; decipher.final() throws when the tag
\* does not verify under (key, iv, ciphertext).
decryptMessage(encryptedData, key) ==
  IF encryptedData.iv = None \/ encryptedData.authTag = None
       \/ encryptedData.encrypted = None
  THEN [ok |-> FALSE, value |-> "TypeError"]
  ELSE LET ct  == encryptedData.encrypted[1]
           tag == encryptedData.authTag[1]
           iv  == encryptedData.iv[1]
       IN IF ct[3] = key /\ ct[4] = iv /\ tag = <<"tag", ct[2], key, iv>>
          THEN [ok |-> TRUE, value |-> utf8Slice(ct[2])]
          ELSE [ok |-> FALSE, value |-> "AuthError"]

\* ------------------------------------------------- models/Message.js
\* new Message({...}): schema paths only (strict mode drops the rest), with
\* the schema defaults.  kind is the JavaScript type of the value handed to
\* the String path encryptedContent: "string", "array" or "undefined".
NewMessage(id, sender, recipient, group, content, encKind, enc, isSD, sdAt, t) ==
  [_id |-> id,
   sender |-> sender,
   recipient |-> recipient,
   group |-> group,
   content |-> content,
   encryptedContent |-> IF encKind = "string" THEN enc ELSE None,
   isEncrypted |-> TRUE,
   isSelfDestructing |-> (isSD = Some(TRUE)),
   selfDestructAt |-> sdAt,
   readBy |-> <<>>,
   status |-> "sent",
   createdAt |-> t,
   deletedAt |-> None]

\* the validation of a schema whose encryptedContent were optional
ValidateMessageWithoutPayload(doc, encKind, dateValid) ==
  /\ doc.sender # NoId
  /\ doc.content # None
  /\ dateValid

\* document validation run by save(): required paths and cast errors
ValidateMessage(doc, encKind, dateValid) ==
  /\ doc.sender # NoId
  /\ doc.content # None
  /\ encKind = "string"
  /\ doc.encryptedContent # None
  /\ dateValid

\* isSelfDestructing ? new Date(Date.now() + selfDestructTime) : null
SelfDestructAt(isSD, selfDestructTime, t) ==
  IF isSD = Some(TRUE) /\ selfDestructTime # None
  THEN Some(t + selfDestructTime[1])
  ELSE None

\* a Date path that took whatever it is given
SelfDestructDateUnchecked(isSD, selfDestructTime) == TRUE

\* new Date(NaN) is an Invalid Date, which the Date path refuses to cast
SelfDestructDateValid(isSD, selfDestructTime) ==
  ~(isSD = Some(TRUE) /\ selfDestructTime = None)

VARIABLES messages, groups, now, delReq, sweep

\* the state of the parts of the server beside the message routes:
\*   crypt           an encryption helper call: its arguments and results
\*   requests        the Map of a rate limiter (utils/security.js)
\*   granted         the times of the calls of the limiter that returned true
\*   grpReq          a group request between its middleware and its save
\*   friends         the friends list of each user document
\*   connectedUsers  the Map of server.js, user id to socket id
\*   sockets         the sockets of the second io.on('connection') handler
\*   users           the object users of server.js, socket id to user
\*   clients         the sockets of the first io.on('connection') handler
\*   otpStore        the object otpStore of routes/auth.js
\*   otpReq          the requests to /reset-password and /register in flight
\*   otpLog          the requests that were answered with success
VARIABLES crypt, requests, granted, grpReq, friends, addReq, connectedUsers,
          sockets, users, clients, otpStore, otpReq, otpLog, accounts

messageVars == <<messages, groups, now, delReq, sweep>>
cryptVars == <<crypt>>
limiterVars == <<requests, granted>>
friendVars == <<friends, addReq>>
presenceVars == <<connectedUsers, sockets>>
userListVars == <<users, clients>>
otpVars == <<otpStore, otpReq, otpLog, accounts>>

\* what the message routes and the sweep never touch
others == <<cryptVars, limiterVars, grpReq, friendVars, presenceVars,
            userListVars, otpVars>>

vars == <<messageVars, others>>

\* ------------------------------------------------- start values
SocketIds == {"s1", "s2"}
OtpSlots == {1, 2}
Emails == {"a@x"}

CryptStart == crypt = None
LimiterStart ==
  /\ requests = [u \in Users |-> <<>>]
  /\ granted = [u \in Users |-> <<>>]
GroupReqStart == grpReq = None
FriendsStart ==
  /\ friends = [u \in Users |-> <<>>]
  /\ addReq = [u \in Users |-> None]
PresenceStart ==
  /\ connectedUsers = [u \in Users |-> None]
  /\ sockets = [s \in SocketIds |->
                 [status |-> "new", userId |-> None, authenticating |-> None,
                  disconnecting |-> FALSE]]
UserListStart ==
  /\ users = [s \in SocketIds |-> None]
  /\ clients = [s \in SocketIds |->
                 [status |-> "new", online |-> None, offline |-> FALSE,
                  disconnecting |-> FALSE]]
OtpStart ==
  /\ otpStore = [e \in Emails |-> None]
  /\ otpReq = [r \in OtpSlots |-> None]
  /\ otpLog = [issued |-> <<>>, used |-> <<>>]
  /\ accounts = {}

\* the start of everything beside the message routes
Elsewhere ==
  /\ CryptStart
  /\ LimiterStart
  /\ GroupReqStart
  /\ FriendsStart
  /\ PresenceStart
  /\ UserListStart
  /\ OtpStart

MsgIds == 1..Len(messages)

\* a members entry {user, role} (joinedAt left out)
Member(user, role) == [user |-> user, role |-> role]

\* a group document: members and admins are arrays, in the order of the
\* pushes; metadata.memberCount starts as the route of creation and
\* addMember have left it
GroupDoc(members, admins) ==
  [members |-> members, admins |-> admins, messageCount |-> 0,
   memberCount |-> Len(members)]

\* the users of the members array, and of the admins array
MemberIds(group) == {group.members[k].user : k \in 1..Len(group.members)}
AdminIds(group) == {group.admins[k] : k \in 1..Len(group.admins)}

\* g1 was created by u2, who then invited u1; g2 was created by u2
StartGroups ==
  [g \in GroupIds |->
     IF g = "g1"
     THEN GroupDoc(<<Member("u2", "admin"), Member("u1", "member")>>, <<"u2">>)
     ELSE GroupDoc(<<Member("u2", "admin")>>, <<"u2">>)]

\* the background task is idle, or inside its loop: found are the documents
\* of its query (live: those loaded with no deletedAt), queue the ones not
\* yet handled, stamp the deletedAt that softDelete has put on the head of
\* the queue
NoSweep == [pc |-> "idle", found |-> {}, live |-> {}, queue |-> <<>>,
            stamp |-> None]

Init ==
  /\ messages = <<>>
  /\ groups = StartGroups
  /\ now = 0
  /\ delReq = None
  /\ sweep = NoSweep
  /\ Elsewhere

\* ------------------------------------------------- middleware/auth.js
\* authenticate: the token names a user record, or the request ends with 401
\* (detectMaliciousActivity, whose code is not in the repository, is taken to
\* report nothing, and the rate limiter to admit the request)
authenticate(token) == FindUser(token) # None

\* requireGroupAccess without its isMember test
requireGroupAccessOfAnyone(groupId, userId) ==
  IF groupId \notin GroupIds THEN "404" ELSE "ok"

\* requireGroupAccess: Group.findById, then the membership test on the
\* loaded document; "ok" hands the document on as req.group (Group is taken
\* to be the model of models/Group, which the file uses without requiring it)
requireGroupAccess(groupId, userId) ==
  IF groupId \notin GroupIds THEN "404"
  ELSE IF userId \notin MemberIds(groups[groupId]) THEN "403"
  ELSE "ok"

\* ------------------------------------------------- routes/message.js
CanStore == Len(messages) < MaxMsgs

\* crypto.randomBytes(16): a value no stored ciphertext was made with
randomBytes == Len(messages) + 1

\* router.post('/user/:userId'): the document the handler builds
PostUserDoc(token, userId, content, isSD, sdTime) ==
  NewMessage(Len(messages) + 1, token, userId, NoId, content, "string",
             encryptMessage(content[1], UserDoc(userId).encryptionKey,
                            randomBytes).encrypted,
             isSD, SelfDestructAt(isSD, sdTime, now), now)

\* the answer of a handler that went on without the test of the recipient
PostUserOutcomeWithoutLookup(token, userId, content, isSD, sdTime) ==
  IF ~authenticate(token) THEN "401"
  ELSE IF \/ content = None
          \/ ~KeyValid(UserDoc(userId).encryptionKey)
          \/ ~ValidateMessage(PostUserDoc(token, userId, content, isSD, sdTime),
                              "string", SelfDestructDateValid(isSD, sdTime))
  THEN "500"
  ELSE "200"

\* its answer: 401 from authenticate, 404 without a recipient record, 500
\* when encryptMessage or save() throws, else 200
PostUserOutcome(token, userId, content, isSD, sdTime) ==
  IF ~authenticate(token) THEN "401"
  ELSE IF FindUser(userId) = None THEN "404"
  ELSE IF \/ content = None
          \/ ~KeyValid(UserDoc(userId).encryptionKey)
          \/ ~ValidateMessage(PostUserDoc(token, userId, content, isSD, sdTime),
                              "string", SelfDestructDateValid(isSD, sdTime))
  THEN "500"
  ELSE "200"

PostUser(token, userId, content, isSD, sdTime) ==
  /\ IF PostUserOutcome(token, userId, content, isSD, sdTime) = "200"
     THEN /\ CanStore
          /\ messages' = Append(messages,
                           PostUserDoc(token, userId, content, isSD, sdTime))
     ELSE UNCHANGED messages
  /\ UNCHANGED <<groups, now, delReq, sweep>>
  /\ UNCHANGED others

\* req.group.members.map(...): one {userId, encrypted} for each member, the
\* text encrypted under that member's key
EncryptedContents(groupId, content) ==
  {[userId |-> u,
    encrypted |-> encryptMessage(content[1], UserDoc(u).encryptionKey,
                                 randomBytes).encrypted] :
     u \in MemberIds(groups[groupId])}

\* router.post('/group/:groupId'): the payload is an array with one
\* {userId, encrypted} per member, handed to the String path encryptedContent
PostGroupDoc(token, groupId, content, isSD, sdTime) ==
  NewMessage(Len(messages) + 1, token, NoId, groupId, content, "array",
             EncryptedContents(groupId, content), isSD,
             SelfDestructAt(isSD, sdTime, now), now)

PostGroupOutcome(token, groupId, content, isSD, sdTime) ==
  IF ~authenticate(token) THEN "401"
  ELSE IF requireGroupAccess(groupId, token) # "ok"
  THEN requireGroupAccess(groupId, token)
  ELSE IF \/ content = None
          \/ ~ValidateMessage(PostGroupDoc(token, groupId, content, isSD, sdTime),
                              "array", SelfDestructDateValid(isSD, sdTime))
  THEN "500"
  ELSE "200"

\* req.group.metadata.messageCount += 1; await req.group.save(), reached
\* after message.save() only: the Group collection the handler leaves
PostGroupGroups(token, groupId, content, isSD, sdTime) ==
  IF PostGroupOutcome(token, groupId, content, isSD, sdTime) = "200"
  THEN [groups EXCEPT ![groupId].messageCount = @ + 1]
  ELSE groups

PostGroup(token, groupId, content, isSD, sdTime) ==
  /\ IF PostGroupOutcome(token, groupId, content, isSD, sdTime) = "200"
     THEN /\ CanStore
          /\ messages' = Append(messages,
                           PostGroupDoc(token, groupId, content, isSD, sdTime))
     ELSE UNCHANGED messages
  /\ groups' = PostGroupGroups(token, groupId, content, isSD, sdTime)
  /\ UNCHANGED <<now, delReq, sweep>>
  /\ UNCHANGED others

\* ------------------------------------------------- server.js sockets
\* socket.on('privateMessage'): no encryptedContent is given to the document;
\* 'messageSent' after the save, 'error' from the catch
PrivateMessageDoc(userId, recipientId, content, isSD, sdTime) ==
  NewMessage(Len(messages) + 1, userId, recipientId, NoId, content, "undefined",
             None, isSD, SelfDestructAt(isSD, sdTime, now), now)

PrivateMessageOutcome(userId, recipientId, content, isSD, sdTime) ==
  IF ValidateMessage(PrivateMessageDoc(userId, recipientId, content, isSD, sdTime),
                     "undefined", SelfDestructDateValid(isSD, sdTime))
  THEN "messageSent"
  ELSE "error"

\* what the handler emits: 'newMessage' to the socket that
\* connectedUsers.get(recipientId) gave, if it gave one, and 'messageSent'
\* to the sender, both after the save; 'error' from the catch
PrivateMessageEmits(userId, recipientId, content, isSD, sdTime, recipientSocketId) ==
  IF PrivateMessageOutcome(userId, recipientId, content, isSD, sdTime) = "messageSent"
  THEN (IF recipientSocketId # None THEN {"newMessage"} ELSE {}) \cup {"messageSent"}
  ELSE {"error"}

PrivateMessage(userId, recipientId, content, isSD, sdTime) ==
  /\ IF PrivateMessageOutcome(userId, recipientId, content, isSD, sdTime)
          = "messageSent"
     THEN /\ CanStore
          /\ messages' = Append(messages,
                 PrivateMessageDoc(userId, recipientId, content, isSD, sdTime))
     ELSE UNCHANGED messages
  /\ UNCHANGED <<groups, now, delReq, sweep>>
  /\ UNCHANGED others

\* socket.on('groupMessage')
GroupMessageDoc(userId, groupId, content, isSD, sdTime) ==
  NewMessage(Len(messages) + 1, userId, NoId, groupId, content, "undefined",
             None, isSD, SelfDestructAt(isSD, sdTime, now), now)

GroupMessageOutcome(userId, groupId, content, isSD, sdTime) ==
  IF ValidateMessage(GroupMessageDoc(userId, groupId, content, isSD, sdTime),
                     "undefined", SelfDestructDateValid(isSD, sdTime))
  THEN "newGroupMessage"
  ELSE "error"

GroupMessage(userId, groupId, content, isSD, sdTime) ==
  /\ IF GroupMessageOutcome(userId, groupId, content, isSD, sdTime)
          = "newGroupMessage"
     THEN /\ CanStore
          /\ messages' = Append(messages,
                 GroupMessageDoc(userId, groupId, content, isSD, sdTime))
     ELSE UNCHANGED messages
  /\ UNCHANGED <<groups, now, delReq, sweep>>
  /\ UNCHANGED others

\* ------------------------------------------------- fetch routes
FetchLimit == 50

\* the same query without its deletedAt: null condition
FindConversationWithDeleted(me, other) ==
  {i \in MsgIds :
     \/ messages[i].sender = me /\ messages[i].recipient = other
     \/ messages[i].sender = other /\ messages[i].recipient = me}

\* Message.find({$or: [{sender: me, recipient: other},
\*                     {sender: other, recipient: me}], deletedAt: null})
FindConversation(me, other) ==
  {i \in MsgIds :
     /\ \/ messages[i].sender = me /\ messages[i].recipient = other
        \/ messages[i].sender = other /\ messages[i].recipient = me
     /\ messages[i].deletedAt = None}

\* Message.find({group: req.group._id, deletedAt: null})
FindGroupMessages(groupId) ==
  {i \in MsgIds : messages[i].group = groupId /\ messages[i].deletedAt = None}

\* .sort({createdAt: -1}); documents of one millisecond stay in natural order
RECURSIVE SortNewestFirst(_)
SortNewestFirst(S) ==
  IF S = {} THEN <<>>
  ELSE LET m == CHOOSE i \in S :
                  \A j \in S : \/ messages[i].createdAt > messages[j].createdAt
                               \/ /\ messages[i].createdAt = messages[j].createdAt
                                  /\ i <= j
       IN <<m>> \o SortNewestFirst(S \ {m})

\* .limit(n)
Limit(seq, n) == SubSeq(seq, 1, IF Len(seq) < n THEN Len(seq) ELSE n)

\* message.iv: the schema has no iv path (and none for the auth tag), so the
\* stored document has neither
MessageIv(doc) == None
MessageAuthTag(doc) == None

\* decryptMessage({encrypted: message.encryptedContent, iv: message.iv}, key)
DecryptDirect(doc, key) ==
  decryptMessage([encrypted |-> doc.encryptedContent,
                  iv |-> MessageIv(doc),
                  authTag |-> MessageAuthTag(doc)], key)

\* message.encryptedContent.find(enc => ...): the stored value is a String,
\* which has no find method
DecryptGroup(doc, userId, key) ==
  [ok |-> FALSE, value |-> "TypeError"]

FetchResult(code, found, body) == [code |-> code, found |-> found, body |-> body]

\* messages.map(message => ...): dec[k] is what decryptMessage gave for the
\* k-th document found
Decrypted(found, dec) ==
  [k \in 1..Len(found) |->
     [_id |-> found[k],
      content |-> IF messages[found[k]].isEncrypted
                  THEN Some(dec[k].value)
                  ELSE messages[found[k]].content]]

\* router.get('/user/:userId'): what the handler answers in this state
GetUserResult(token, userId) ==
  IF ~authenticate(token) THEN FetchResult("401", <<>>, <<>>)
  ELSE LET found == Limit(SortNewestFirst(FindConversation(token, userId)),
                          FetchLimit)
           dec == [k \in 1..Len(found) |->
                     DecryptDirect(messages[found[k]],
                                   UserDoc(token).encryptionKey)]
       IN IF \E k \in 1..Len(found) :
               messages[found[k]].isEncrypted /\ ~dec[k].ok
          THEN FetchResult("500", found, <<>>)
          ELSE FetchResult("200", found, Decrypted(found, dec))

\* router.get('/group/:groupId')
GetGroupResult(token, groupId) ==
  IF ~authenticate(token) THEN FetchResult("401", <<>>, <<>>)
  ELSE IF requireGroupAccess(groupId, token) # "ok"
  THEN FetchResult(requireGroupAccess(groupId, token), <<>>, <<>>)
  ELSE LET found == Limit(SortNewestFirst(FindGroupMessages(groupId)), FetchLimit)
           dec == [k \in 1..Len(found) |->
                     DecryptGroup(messages[found[k]], token,
                                  UserDoc(token).encryptionKey)]
       IN IF \E k \in 1..Len(found) :
               messages[found[k]].isEncrypted /\ ~dec[k].ok
          THEN FetchResult("500", found, <<>>)
          ELSE FetchResult("200", found, Decrypted(found, dec))

\* the two fetches answer and write nothing
GetUser(token, userId) ==
  /\ GetUserResult(token, userId).code \in {"200", "401", "500"}
  /\ UNCHANGED <<messages, groups, now, delReq, sweep>>
  /\ UNCHANGED others

GetGroup(token, groupId) ==
  /\ GetGroupResult(token, groupId).code \in {"200", "401", "403", "404", "500"}
  /\ UNCHANGED <<messages, groups, now, delReq, sweep>>
  /\ UNCHANGED others

\* ------------------------------------------------- Message methods
\* messageSchema.methods.softDelete: deletedAt = new Date(), status =
\* 'deleted', save() writes the two modified paths
softDelete(id, stamp) ==
  [messages EXCEPT ![id].deletedAt = Some(stamp), ![id].status = "deleted"]

HasRead(doc, userId) == \E k \in 1..Len(doc.readBy) : doc.readBy[k].user = userId

\* markAsRead without its readBy.some(...) test
markAsReadUnchecked(id, userId) ==
  /\ id \in MsgIds
  /\ messages' = [messages EXCEPT
                    ![id].readBy = Append(@, [user |-> userId]),
                    ![id].status = "read"]
  /\ UNCHANGED <<groups, now, delReq, sweep>>
  /\ UNCHANGED others

\* messageSchema.methods.markAsRead on the document with this id; of a
\* receipt {user, readAt} the user is kept
markAsRead(id, userId) ==
  /\ id \in MsgIds
  /\ IF ~HasRead(messages[id], userId)
     THEN messages' = [messages EXCEPT
                         ![id].readBy = Append(@, [user |-> userId]),
                         ![id].status = "read"]
     ELSE UNCHANGED messages
  /\ UNCHANGED <<groups, now, delReq, sweep>>
  /\ UNCHANGED others

\* ------------------------------------------------- delete route
\* router.delete('/:messageId') runs behind authenticate only: nothing sets
\* req.group, and req.group?.admins.includes(...) is undefined without it
DeleteReqGroup == None

IsReqGroupAdmin(reqGroup, userId) ==
  reqGroup # None /\ userId \in AdminIds(groups[reqGroup[1]])

\* the handler up to softDelete: 401, 404, 403 or "ok"
DeleteOutcome(token, messageId) ==
  IF ~authenticate(token) THEN "401"
  ELSE IF messageId \notin MsgIds THEN "404"
  ELSE IF /\ messages[messageId].sender # token
          /\ ~(messages[messageId].group # NoId
               /\ IsReqGroupAdmin(DeleteReqGroup, token))
  THEN "403"
  ELSE "ok"

\* DELETE /:messageId up to the await of save(): softDelete has stamped the
\* loaded document with new Date()
DeleteLoad(token, messageId) ==
  /\ delReq = None
  /\ IF DeleteOutcome(token, messageId) = "ok"
     THEN delReq' = Some([id |-> messageId, by |-> token, deletedAt |-> now])
     ELSE UNCHANGED delReq
  /\ UNCHANGED <<messages, groups, now, sweep>>
  /\ UNCHANGED others

\* save() resolves (200) or rejects (500)
DeleteSave(saved) ==
  /\ delReq # None
  /\ IF saved
     THEN messages' = softDelete(delReq[1].id, delReq[1].deletedAt)
     ELSE UNCHANGED messages
  /\ delReq' = None
  /\ UNCHANGED <<groups, now, sweep>>
  /\ UNCHANGED others

\* ------------------------------------------------- expiry sweep
\* Message.find({'metadata.isSelfDestructing': true,
\*               'metadata.selfDestructAt': {$lte: new Date()}})
SweepQuery ==
  {i \in MsgIds :
     /\ messages[i].isSelfDestructing
     /\ messages[i].selfDestructAt # None
     /\ messages[i].selfDestructAt[1] <= now}

RECURSIVE InOrder(_)
InOrder(S) ==
  IF S = {} THEN <<>>
  ELSE LET m == CHOOSE i \in S : \A j \in S : i <= j
       IN <<m>> \o InOrder(S \ {m})

\* cleanupSelfDestructingMessages up to the first await of softDelete: the
\* query, and the stamp softDelete puts on the first document.  The timer
\* starts a run every 60 s; a run is taken to end before the next one starts.
cleanupSelfDestructingMessages ==
  /\ sweep.pc = "idle"
  /\ sweep' = IF SweepQuery = {} THEN NoSweep
              ELSE [pc |-> "saving",
                    found |-> SweepQuery,
                    live |-> {i \in SweepQuery : messages[i].deletedAt = None},
                    queue |-> InOrder(SweepQuery),
                    stamp |-> Some(now)]
  /\ UNCHANGED <<messages, groups, now, delReq>>
  /\ UNCHANGED others

\* one turn of the for loop: the save of the head resolves and the loop goes
\* on to the next document (or ends), or it rejects and the catch around the
\* whole loop logs the error and ends the run
SweepSave(saved) ==
  /\ sweep.pc = "saving"
  /\ IF saved
     THEN /\ messages' = softDelete(Head(sweep.queue), sweep.stamp[1])
          /\ sweep' = IF Tail(sweep.queue) = <<>> THEN NoSweep
                      ELSE [sweep EXCEPT !.queue = Tail(@), !.stamp = Some(now)]
     ELSE /\ UNCHANGED messages
          /\ sweep' = NoSweep
  /\ UNCHANGED <<groups, now, delReq>>
  /\ UNCHANGED others

Tick ==
  /\ now < MaxTime
  /\ now' = now + 1
  /\ UNCHANGED <<messages, groups, delReq, sweep>>
  /\ UNCHANGED others

\* ------------------------------------------------- requests
\* <<isSelfDestructing, selfDestructTime>> of a request body
SelfDestructParams ==
  {<<None, None>>, <<None, Some(1)>>,
   <<Some(FALSE), None>>, <<Some(FALSE), Some(1)>>}
    \cup {<<Some(TRUE), Some(d)>> : d \in Delays}

\* request <<token, :userId, content, isSelfDestructing, selfDestructTime>>:
\* u1 writes to u2, any text as a plain message and one text with each
\* self-destruct setting; one request for each way to fail
PostUserRequests ==
  {<<"u1", "u2", Some(p), None, None>> : p \in Plaintexts}
    \cup {<<"u1", "u2", Some("p1"), sd[1], sd[2]>> : sd \in SelfDestructParams}
    \cup {<<Ghost, "u2", Some("p1"), None, None>>,
          <<"u1", Ghost, Some("p1"), None, None>>,
          <<"u1", Ghost, Some("p2"), Some(TRUE), Some(1)>>,
          <<"u1", Ghost, None, Some(TRUE), None>>,
          <<"u1", "u2", None, None, None>>,
          <<"u1", "u2", Some("p1"), Some(TRUE), None>>}

\* request <<token, :groupId, content, isSelfDestructing, selfDestructTime>>
PostGroupRequests ==
  {<<"u1", "g1", Some(p), sd[1], sd[2]>> :
      p \in Plaintexts, sd \in {<<None, None>>, <<Some(TRUE), Some(1)>>}}
    \cup {<<Ghost, "g1", Some("p1"), None, None>>,
          <<"u1", "g0", Some("p1"), None, None>>,
          <<"u1", "g2", Some("p1"), None, None>>,
          <<"u2", "g2", Some("p1"), None, None>>,
          <<"u1", "g1", None, None, None>>}

\* event <<socket.userId, recipientId, content, isSelfDestructing,
\* selfDestructTime>>; socket.userId is unset before 'authenticate'
PrivateMessageEvents ==
  {<<"u1", "u2", Some("p1"), None, None>>,
   <<"u1", "u2", Some("p2"), Some(TRUE), Some(1)>>,
   <<"u1", NoId, Some("p1"), None, None>>,
   <<NoId, "u2", Some("p1"), None, None>>,
   <<"u1", "u2", None, None, None>>}

\* event <<socket.userId, groupId, content, isSelfDestructing,
\* selfDestructTime>>
GroupMessageEvents ==
  {<<"u1", "g1", Some("p1"), None, None>>,
   <<"u2", "g2", Some("p2"), Some(TRUE), Some(1)>>,
   <<"u1", "g2", Some("p1"), None, None>>,
   <<"u1", "g0", Some("p1"), None, None>>,
   <<"u1", NoId, Some("p1"), None, None>>,
   <<NoId, "g1", Some("p1"), None, None>>,
   <<"u1", "g1", None, None, None>>}

Tokens == Users \cup {Ghost}
UserParams == Users \cup {Ghost}
GroupParams == GroupIds \cup {"g0"}
MessageParams == 1..MaxMsgs
Readers == {"u2"}

Next ==
  \/ Tick
  \/ \E r \in PostUserRequests : PostUser(r[1], r[2], r[3], r[4], r[5])
  \/ \E r \in PostGroupRequests : PostGroup(r[1], r[2], r[3], r[4], r[5])
  \/ \E e \in PrivateMessageEvents : PrivateMessage(e[1], e[2], e[3], e[4], e[5])
  \/ \E e \in GroupMessageEvents : GroupMessage(e[1], e[2], e[3], e[4], e[5])
  \/ \E t \in Tokens, u \in UserParams : GetUser(t, u)
  \/ \E t \in Tokens, g \in GroupParams : GetGroup(t, g)
  \/ \E m \in MessageParams, u \in Readers : markAsRead(m, u)
  \/ \E t \in Tokens, m \in MessageParams : DeleteLoad(t, m)
  \/ \E saved \in BOOLEAN : DeleteSave(saved)
  \/ cleanupSelfDestructingMessages
  \/ \E saved \in BOOLEAN : SweepSave(saved)

Spec == Init /\ [][Next]_vars

\* ------------------------------------------------- a collection with history
\* The collection outlives the process.  No send of this code stores a group
\* message (PostGroupOutcome and GroupMessageOutcome never succeed), so the
\* handlers' treatment of one is exercised from a start-up state whose
\* collection holds one document the schema admits: a group message of
\* g1, sent by either member, its payload a string.
StoredGroupMessage(sender) ==
  NewMessage(1, sender, NoId, "g1", Some("p1"), "string",
             encryptMessage("p1", UserDoc(sender).encryptionKey, 1).encrypted,
             None, None, 0)

InitStored ==
  /\ messages \in {<<>>} \cup {<<StoredGroupMessage(u)>> : u \in Users}
  /\ groups = StartGroups
  /\ now = 0
  /\ delReq = None
  /\ sweep = NoSweep
  /\ Elsewhere

SpecStored == InitStored /\ [][Next]_vars

\* ------------------------------------------------- receipts of both users
\* The writers of the collection at one instant, with markAsRead called for
\* the sender as well as for the recipient, so that a message can carry the
\* receipts of two users.
NextReaders ==
  \/ \E r \in PostUserRequests : PostUser(r[1], r[2], r[3], r[4], r[5])
  \/ \E m \in MessageParams, u \in Users : markAsRead(m, u)
  \/ \E t \in Tokens, m \in MessageParams : DeleteLoad(t, m)
  \/ \E saved \in BOOLEAN : DeleteSave(saved)
  \/ cleanupSelfDestructingMessages
  \/ \E saved \in BOOLEAN : SweepSave(saved)

SpecReaders == Init /\ [][NextReaders]_vars

\* ------------------------------------------------- models/Group.js
\* groupSchema.methods.addMember
addMember(group, userId) ==
  IF userId \in MemberIds(group) THEN group
  ELSE [group EXCEPT !.members = Append(@, Member(userId, "member")),
                     !.memberCount = @ + 1]

\* this.members.findIndex(...): the first entry of the user
MemberIndex(group, userId) ==
  CHOOSE k \in 1..Len(group.members) :
    /\ group.members[k].user = userId
    /\ \A j \in 1..(k - 1) : group.members[j].user # userId

\* groupSchema.methods.removeMember
removeMember(group, userId) ==
  IF userId \notin MemberIds(group) THEN group
  ELSE LET k == MemberIndex(group, userId)
       IN [group EXCEPT
             !.members = SubSeq(@, 1, k - 1) \o SubSeq(@, k + 1, Len(@)),
             !.memberCount = @ - 1]

\* groupSchema.methods.updateMemberRole
updateMemberRole(group, userId, newRole) ==
  IF userId \notin MemberIds(group) THEN group
  ELSE [group EXCEPT !.members[MemberIndex(group, userId)].role = newRole]

\* ------------------------------------------------- routes/group.js
Roles == {"admin", "moderator", "member"}

\* the admins array may hold a user more than once; its length is capped
MaxAdmins == 2

\* router.post('/:groupId/invite/:userId'), for groups whose
\* settings.allowInvites is the schema default, true
InviteOutcome(token, groupId, userId) ==
  IF ~authenticate(token) THEN "401"
  ELSE IF requireGroupAccess(groupId, token) # "ok"
  THEN requireGroupAccess(groupId, token)
  ELSE IF FindUser(userId) = None THEN "404"
  ELSE IF userId \in MemberIds(groups[groupId]) THEN "400"
  ELSE "200"

Invite(token, groupId, userId) ==
  /\ groups' = IF InviteOutcome(token, groupId, userId) = "200"
               THEN [groups EXCEPT ![groupId] = addMember(@, userId)]
               ELSE groups
  /\ UNCHANGED <<messages, now, delReq, sweep>>
  /\ UNCHANGED others

\* router.delete('/:groupId/members/:userId')
DeleteMemberOutcome(token, groupId, userId) ==
  IF ~authenticate(token) THEN "401"
  ELSE IF requireGroupAccess(groupId, token) # "ok"
  THEN requireGroupAccess(groupId, token)
  ELSE LET group == groups[groupId]
           isAdmin == token \in AdminIds(group)
       IN IF ~isAdmin /\ token # userId THEN "403"
          ELSE IF isAdmin /\ Len(group.admins) = 1 /\ group.admins[1] = userId
          THEN "400"
          ELSE "200"

DeleteMember(token, groupId, userId) ==
  /\ groups' = IF DeleteMemberOutcome(token, groupId, userId) = "200"
               THEN [groups EXCEPT ![groupId] = removeMember(@, userId)]
               ELSE groups
  /\ UNCHANGED <<messages, now, delReq, sweep>>
  /\ UNCHANGED others

\* router.put('/:groupId/members/:userId/role')
PutRoleOutcome(token, groupId, userId, role) ==
  IF ~authenticate(token) THEN "401"
  ELSE IF requireGroupAccess(groupId, token) # "ok"
  THEN requireGroupAccess(groupId, token)
  ELSE IF token \notin AdminIds(groups[groupId]) THEN "403"
  ELSE IF role \notin Roles THEN "400"
  ELSE "200"

\* the document its save() writes: the role of the member, if the user is
\* one, and the admins array, pushed to or filtered
PutRoleDoc(group, userId, role) ==
  [updateMemberRole(group, userId, role) EXCEPT
     !.admins = IF role = "admin" THEN Append(@, userId)
                ELSE SelectSeq(@, LAMBDA a : a # userId)]

PutRole(token, groupId, userId, role) ==
  /\ role = "admin" => Len(groups[groupId].admins) < MaxAdmins
  /\ groups' = IF PutRoleOutcome(token, groupId, userId, role) = "200"
               THEN [groups EXCEPT ![groupId] = PutRoleDoc(@, userId, role)]
               ELSE groups
  /\ UNCHANGED <<messages, now, delReq, sweep>>
  /\ UNCHANGED others

\* router.post('/:groupId/leave')
LeaveOutcome(token, groupId) ==
  IF ~authenticate(token) THEN "401"
  ELSE IF requireGroupAccess(groupId, token) # "ok"
  THEN requireGroupAccess(groupId, token)
  ELSE IF Len(groups[groupId].admins) = 1 /\ groups[groupId].admins[1] = token
  THEN "400"
  ELSE "200"

Leave(token, groupId) ==
  /\ groups' = IF LeaveOutcome(token, groupId) = "200"
               THEN [groups EXCEPT ![groupId] = removeMember(@, token)]
               ELSE groups
  /\ UNCHANGED <<messages, now, delReq, sweep>>
  /\ UNCHANGED others

\* ------------------------------------------------- a group send in two steps
\* router.post('/group/:groupId') up to the end of requireGroupAccess: the
\* group document is loaded and handed on as req.group
GroupSendLoad(token, groupId, content, isSD, sdTime) ==
  /\ grpReq = None
  /\ authenticate(token)
  /\ requireGroupAccess(groupId, token) = "ok"
  /\ grpReq' = Some([by |-> token, groupId |-> groupId,
                     group |-> groups[groupId], content |-> content,
                     isSD |-> isSD, sdTime |-> sdTime])
  /\ UNCHANGED messageVars
  /\ UNCHANGED <<cryptVars, limiterVars, friendVars, presenceVars,
                 userListVars, otpVars>>

\* the entries the handler builds from req.group.members
GroupSendPayload(r) ==
  {[userId |-> u,
    encrypted |-> encryptMessage(r.content[1], UserDoc(u).encryptionKey,
                                 randomBytes).encrypted] :
     u \in MemberIds(r.group)}

GroupSendDoc(r) ==
  NewMessage(Len(messages) + 1, r.by, NoId, r.groupId, r.content, "array",
             GroupSendPayload(r), r.isSD,
             SelfDestructAt(r.isSD, r.sdTime, now), now)

\* message.save() of the handler resolves
GroupSendSaved(r) ==
  /\ r.content # None
  /\ ValidateMessage(GroupSendDoc(r), "array",
                     SelfDestructDateValid(r.isSD, r.sdTime))

\* the rest of the handler: the message is saved and then the group, with
\* the messageCount of req.group plus one, or the catch answers 500
GroupSendSave ==
  /\ grpReq # None
  /\ IF GroupSendSaved(grpReq[1])
     THEN /\ CanStore
          /\ messages' = Append(messages, GroupSendDoc(grpReq[1]))
          /\ groups' = [groups EXCEPT ![grpReq[1].groupId].messageCount =
                                        grpReq[1].group.messageCount + 1]
     ELSE UNCHANGED <<messages, groups>>
  /\ grpReq' = None
  /\ UNCHANGED <<now, delReq, sweep>>
  /\ UNCHANGED <<cryptVars, limiterVars, friendVars, presenceVars,
                 userListVars, otpVars>>

\* requests to the group routes: both users on g1, and u2 on her own g2
RoleParams == Roles \cup {"owner"}

NextGroups ==
  \/ \E t \in Users, u \in Users : Invite(t, "g1", u)
  \/ \E t \in Users, u \in Users : DeleteMember(t, "g1", u)
  \/ \E t \in Users, u \in Users, role \in RoleParams : PutRole(t, "g1", u, role)
  \/ \E t \in Users : Leave(t, "g1")
  \/ \E t \in Users, p \in {None, Some("p1")} :
       GroupSendLoad(t, "g1", p, None, None)
  \/ GroupSendSave

SpecGroups == Init /\ [][NextGroups]_vars

\* ------------------------------------------------- utils/security.js, alone
\* one encryptMessage call, its output on the way to one decryptMessage call
Keys == {generateEncryptionKey(u) : u \in Users}
Ivs == {1, 2}
Ciphertexts == {<<"ct", utf8Write(m), k, iv>> : m \in Strings, k \in Keys, iv \in Ivs}
AuthTags == {<<"tag", utf8Write(m), k, iv>> : m \in Strings, k \in Keys, iv \in Ivs}

cryptFrame ==
  /\ UNCHANGED messageVars
  /\ UNCHANGED <<limiterVars, grpReq, friendVars, presenceVars, userListVars,
                 otpVars>>

\* encryptMessage(message, key)
Encrypt(message, key, iv) ==
  /\ crypt = None
  /\ crypt' = Some([message |-> message, key |-> key,
                    data |-> encryptMessage(message, key, iv),
                    modified |-> "none", with |-> None, result |-> None])
  /\ cryptFrame

\* the ciphertext is modified before it is decrypted
ModifyEncrypted(ct) ==
  /\ crypt # None
  /\ crypt[1].modified = "none" /\ crypt[1].result = None
  /\ ct # crypt[1].data.encrypted[1]
  /\ crypt' = Some([crypt[1] EXCEPT !.data.encrypted = Some(ct),
                                    !.modified = "encrypted"])
  /\ cryptFrame

\* the auth tag is modified before it is decrypted
ModifyAuthTag(tag) ==
  /\ crypt # None
  /\ crypt[1].modified = "none" /\ crypt[1].result = None
  /\ tag # crypt[1].data.authTag[1]
  /\ crypt' = Some([crypt[1] EXCEPT !.data.authTag = Some(tag),
                                    !.modified = "authTag"])
  /\ cryptFrame

\* decryptMessage(encryptedData, key)
Decrypt(key) ==
  /\ crypt # None
  /\ crypt[1].result = None
  /\ crypt' = Some([crypt[1] EXCEPT !.with = Some(key),
                      !.result = Some(decryptMessage(crypt[1].data, key))])
  /\ cryptFrame

NextCrypt ==
  \/ \E m \in Strings, k \in Keys, iv \in Ivs : Encrypt(m, k, iv)
  \/ \E ct \in Ciphertexts : ModifyEncrypted(ct)
  \/ \E tag \in AuthTags : ModifyAuthTag(tag)
  \/ \E k \in Keys : Decrypt(k)

SpecCrypt == Init /\ [][NextCrypt]_vars

\* ------------------------------------------------- createRateLimiter
\* the limiter under study: createRateLimiter(WindowMs, MaxRequests), with
\* Date.now() running up to LimiterHorizon
WindowMs == 3
MaxRequests == 2
LimiterHorizon == 5

\* userRequests.filter(time => now - time < windowMs)
validRequests(userRequests, windowMs, t) ==
  SelectSeq(userRequests, LAMBDA time : t - time < windowMs)

\* a limiter that refuses only above max
createRateLimiterAbove(windowMs, max, map, userId, t) ==
  IF Len(validRequests(map[userId], windowMs, t)) > max
  THEN [ok |-> FALSE, requests |-> map]
  ELSE [ok |-> TRUE,
        requests |-> [map EXCEPT ![userId] =
                        Append(validRequests(map[userId], windowMs, t), t)]]

\* the function createRateLimiter(windowMs, max) returns, called with userId
\* at time t when its Map is map: what it returns and the Map it leaves
createRateLimiter(windowMs, max, map, userId, t) ==
  IF Len(validRequests(map[userId], windowMs, t)) >= max
  THEN [ok |-> FALSE, requests |-> map]
  ELSE [ok |-> TRUE,
        requests |-> [map EXCEPT ![userId] =
                        Append(validRequests(map[userId], windowMs, t), t)]]

limiterFrame ==
  UNCHANGED <<cryptVars, grpReq, friendVars, presenceVars, userListVars,
              otpVars>>

\* one call of the limiter; granted keeps the times of the calls that
\* returned true
LimiterCall(userId) ==
  LET r == createRateLimiter(WindowMs, MaxRequests, requests, userId, now)
  IN /\ requests' = r.requests
     /\ granted' = IF r.ok THEN [granted EXCEPT ![userId] = Append(@, now)]
                   ELSE granted
     /\ UNCHANGED messageVars
     /\ limiterFrame

\* Date.now() moves on
Elapse ==
  /\ now < LimiterHorizon
  /\ now' = now + 1
  /\ UNCHANGED <<messages, groups, delReq, sweep>>
  /\ UNCHANGED limiterVars
  /\ limiterFrame

NextLimiter ==
  \/ \E u \in Users : LimiterCall(u)
  \/ Elapse

SpecLimiter == Init /\ [][NextLimiter]_vars

\* ------------------------------------------------- friends routes
\* the friends array of a user document is capped in length
MaxFriends == 3

friendsFrame ==
  /\ UNCHANGED messageVars
  /\ UNCHANGED <<cryptVars, limiterVars, grpReq, presenceVars, userListVars,
                 otpVars>>

\* User.findOne({ email }): the users and an address nobody has
FriendParams == Users \cup {Ghost}

\* routes/friends.js, router.post("/add-friend"), mounted at /api/friends
AddFriendOutcome(token, friend) ==
  IF ~authenticate(token) THEN "401"
  ELSE IF FindUser(friend) = None THEN "404"
  ELSE IF \E k \in 1..Len(friends[token]) : friends[token][k] = friend
  THEN "400"
  ELSE "200"

AddFriend(token, friend) ==
  /\ Len(friends[token]) < MaxFriends
  /\ friends' = IF AddFriendOutcome(token, friend) = "200"
                THEN [friends EXCEPT ![token] = Append(@, friend)]
                ELSE friends
  /\ UNCHANGED addReq
  /\ friendsFrame

\* the add-friend with mutual friendship, up to its first save: both
\* documents are loaded and the tests are made on them
AddMutualOutcome(token, friend) ==
  IF ~authenticate(token) THEN "401"
  ELSE IF FindUser(friend) = None THEN "404"
  ELSE IF friend = token THEN "400"
  ELSE IF \E k \in 1..Len(friends[token]) : friends[token][k] = friend
  THEN "400"
  ELSE "200"

AddMutualLoad(token, friend) ==
  /\ addReq[token] = None
  /\ AddMutualOutcome(token, friend) = "200"
  /\ addReq' = [addReq EXCEPT ![token] =
       Some([friend |-> friend,
             listed |-> \E k \in 1..Len(friends[friend]) :
                          friends[friend][k] = token])]
  /\ UNCHANGED friends
  /\ friendsFrame

\* its saves: user.friends.push and, unless the loaded friend listed the
\* user, friend.friends.push, each written as a $push to the stored array
AddMutualSave(token) ==
  /\ addReq[token] # None
  /\ LET friend == addReq[token][1].friend
     IN /\ Len(friends[token]) < MaxFriends
        /\ Len(friends[friend]) < MaxFriends
        /\ friends' = [u \in Users |->
             IF u = token THEN Append(friends[u], friend)
             ELSE IF u = friend /\ ~addReq[token][1].listed
             THEN Append(friends[u], token)
             ELSE friends[u]]
  /\ addReq' = [addReq EXCEPT ![token] = None]
  /\ friendsFrame

\* router.delete("/remove-friend/:friendId")
RemoveFriendOutcome(token, friendId) ==
  IF ~authenticate(token) THEN "401"
  ELSE IF FindUser(friendId) = None THEN "404"
  ELSE "200"

RemoveFriend(token, friendId) ==
  /\ friends' = IF RemoveFriendOutcome(token, friendId) = "200"
       THEN [u \in Users |->
               IF u = friendId
               THEN SelectSeq(IF u = token
                              THEN SelectSeq(friends[u], LAMBDA f : f # friendId)
                              ELSE friends[u],
                              LAMBDA f : f # token)
               ELSE IF u = token
               THEN SelectSeq(friends[u], LAMBDA f : f # friendId)
               ELSE friends[u]]
       ELSE friends
  /\ UNCHANGED addReq
  /\ friendsFrame

NextFriends ==
  \/ \E t \in Users, f \in FriendParams : AddFriend(t, f)
  \/ \E t \in Users, f \in FriendParams : AddMutualLoad(t, f)
  \/ \E t \in Users : AddMutualSave(t)
  \/ \E t \in Users, f \in FriendParams : RemoveFriend(t, f)

SpecFriends == Init /\ [][NextFriends]_vars

\* ------------------------------------------------- server.js, connectedUsers
\* a socket: "new" before its 'connection', then "connected", then "closed";
\* userId is socket.userId; authenticating holds the user of an
\* 'authenticate' handler that waits for the database, disconnecting says
\* that a 'disconnect' handler does
presenceFrame ==
  /\ UNCHANGED messageVars
  /\ UNCHANGED <<cryptVars, limiterVars, grpReq, friendVars, userListVars,
                 otpVars>>

\* io.on('connection')
Connect(s) ==
  /\ sockets[s].status = "new"
  /\ sockets' = [sockets EXCEPT ![s].status = "connected"]
  /\ UNCHANGED connectedUsers
  /\ presenceFrame

\* the 'disconnect' event of a socket: the handler goes on to the database
\* only when socket.userId is set
DisconnectOf(socket) ==
  [socket EXCEPT !.status = "closed",
                 !.disconnecting = (socket.userId # None)]

\* socket.on('authenticate') up to its first await; a token that does not
\* verify has the socket disconnected
AuthenticateStart(s, token) ==
  /\ sockets[s].status = "connected"
  /\ sockets[s].authenticating = None
  /\ sockets' = [sockets EXCEPT ![s] =
       IF authenticate(token) THEN [@ EXCEPT !.authenticating = Some(token)]
       ELSE DisconnectOf(@)]
  /\ UNCHANGED connectedUsers
  /\ presenceFrame

\* the rest of it, after user.save(): connectedUsers.set and socket.userId
AuthenticateDone(s) ==
  /\ sockets[s].authenticating # None
  /\ connectedUsers' =
       [connectedUsers EXCEPT ![sockets[s].authenticating[1]] = Some(s)]
  /\ sockets' = [sockets EXCEPT ![s].userId = sockets[s].authenticating,
                                ![s].authenticating = None]
  /\ presenceFrame

\* the client goes away: socket.on('disconnect') up to its first await
Disconnect(s) ==
  /\ sockets[s].status = "connected"
  /\ sockets' = [sockets EXCEPT ![s] = DisconnectOf(@)]
  /\ UNCHANGED connectedUsers
  /\ presenceFrame

\* the rest of it: connectedUsers.delete(socket.userId)
DisconnectDone(s) ==
  /\ sockets[s].disconnecting
  /\ connectedUsers' = [connectedUsers EXCEPT ![sockets[s].userId[1]] = None]
  /\ sockets' = [sockets EXCEPT ![s].disconnecting = FALSE]
  /\ presenceFrame

NextPresence ==
  \/ \E s \in SocketIds : Connect(s)
  \/ \E s \in SocketIds, t \in Users \cup {Ghost} : AuthenticateStart(s, t)
  \/ \E s \in SocketIds : AuthenticateDone(s)
  \/ \E s \in SocketIds : Disconnect(s)
  \/ \E s \in SocketIds : DisconnectDone(s)

SpecPresence == Init /\ [][NextPresence]_vars

\* ------------------------------------------------- server.js, users
\* the same sockets as seen by the first io.on("connection"): online holds
\* the email of a 'user-online' handler that waits for the database, offline
\* and disconnecting say that a 'user-offline' or 'disconnect' handler does
userListFrame ==
  /\ UNCHANGED messageVars
  /\ UNCHANGED <<cryptVars, limiterVars, grpReq, friendVars, presenceVars,
                 otpVars>>

\* io.on("connection")
ClientConnect(s) ==
  /\ clients[s].status = "new"
  /\ clients' = [clients EXCEPT ![s].status = "connected"]
  /\ UNCHANGED users
  /\ userListFrame

\* socket.on("user-online") up to its await
UserOnlineStart(s, email) ==
  /\ clients[s].status = "connected"
  /\ clients[s].online = None
  /\ clients' = [clients EXCEPT ![s].online = Some(email)]
  /\ UNCHANGED users
  /\ userListFrame

\* the rest of it: users[socket.id] is set when the email is of a user
UserOnlineDone(s) ==
  /\ clients[s].online # None
  /\ users' = IF FindUser(clients[s].online[1]) # None
              THEN [users EXCEPT ![s] = clients[s].online]
              ELSE users
  /\ clients' = [clients EXCEPT ![s].online = None]
  /\ userListFrame

\* socket.on("user-offline") up to its await
UserOfflineStart(s) ==
  /\ clients[s].status = "connected"
  /\ ~clients[s].offline
  /\ clients' = [clients EXCEPT ![s].offline = TRUE]
  /\ UNCHANGED users
  /\ userListFrame

\* the rest of it: delete users[socket.id]
UserOfflineDone(s) ==
  /\ clients[s].offline
  /\ users' = [users EXCEPT ![s] = None]
  /\ clients' = [clients EXCEPT ![s].offline = FALSE]
  /\ userListFrame

\* socket.on("disconnect") up to its await, which it reaches only with an
\* entry in users
ClientDisconnect(s) ==
  /\ clients[s].status = "connected"
  /\ clients' = [clients EXCEPT ![s].status = "closed",
                                ![s].disconnecting = (users[s] # None)]
  /\ UNCHANGED users
  /\ userListFrame

\* the rest of it: delete users[socket.id]
ClientDisconnectDone(s) ==
  /\ clients[s].disconnecting
  /\ users' = [users EXCEPT ![s] = None]
  /\ clients' = [clients EXCEPT ![s].disconnecting = FALSE]
  /\ userListFrame

\* io.emit("userList", Object.values(users)...)
userList == {users[s][1] : s \in {c \in SocketIds : users[c] # None}}

NextUserList ==
  \/ \E s \in SocketIds : ClientConnect(s)
  \/ \E s \in SocketIds, e \in Users \cup {Ghost} : UserOnlineStart(s, e)
  \/ \E s \in SocketIds : UserOnlineDone(s)
  \/ \E s \in SocketIds : UserOfflineStart(s)
  \/ \E s \in SocketIds : UserOfflineDone(s)
  \/ \E s \in SocketIds : ClientDisconnect(s)
  \/ \E s \in SocketIds : ClientDisconnectDone(s)

SpecUserList == Init /\ [][NextUserList]_vars

\* ------------------------------------------------- routes/auth.js, otpStore
\* an OTP is the number of its sending; otpLog.issued keeps the expiresAt of
\* each, otpLog.used the OTP and arrival time of each request answered with
\* success; accounts are the emails of the User collection
MaxOtps == 2
MaxUses == 3
\* 5 * 60 * 1000 ms, scaled
OtpLifetime == 2

\* req.body.otp: the codes sent, and a code that was never sent
OtpCodes == 0..MaxOtps

otpFrame ==
  /\ UNCHANGED messageVars
  /\ UNCHANGED <<cryptVars, limiterVars, grpReq, friendVars, presenceVars,
                 userListVars>>

\* router.post("/send-otp") for an email without account,
\* router.post("/send-reset-otp") for one with: a new OTP replaces the stored
SendOtp(email) ==
  /\ Len(otpLog.issued) < MaxOtps
  /\ otpStore' = [otpStore EXCEPT ![email] =
       Some([hashedOTP |-> Len(otpLog.issued) + 1,
             expiresAt |-> now + OtpLifetime])]
  /\ otpLog' = [otpLog EXCEPT !.issued = Append(@, now + OtpLifetime)]
  /\ UNCHANGED <<otpReq, accounts>>
  /\ otpFrame

\* router.post("/register") and router.post("/reset-password") up to the
\* await of bcrypt.compare, which is given the hashedOTP stored at this time
VerifyStart(r, route, email, otp) ==
  /\ otpReq[r] = None
  /\ otpStore[email] # None
  /\ otpReq' = [otpReq EXCEPT ![r] =
       Some([route |-> route, email |-> email, otp |-> otp, arrived |-> now,
             isValid |-> (otp = otpStore[email][1].hashedOTP),
             pc |-> "compare"])]
  /\ UNCHANGED <<otpStore, otpLog, accounts>>
  /\ otpFrame

\* after bcrypt.compare: a wrong or expired OTP is deleted and answered
\* with 400; a right one whose entry is gone meanwhile throws on
\* otpStore[lowerEmail].expiresAt
VerifyCheck(r) ==
  /\ otpReq[r] # None
  /\ otpReq[r][1].pc = "compare"
  /\ LET q == otpReq[r][1]
         entry == otpStore[q.email]
     IN IF ~q.isValid
        THEN /\ otpStore' = [otpStore EXCEPT ![q.email] = None]
             /\ otpReq' = [otpReq EXCEPT ![r] = None]
        ELSE IF entry = None
        THEN /\ otpReq' = [otpReq EXCEPT ![r] = None]
             /\ UNCHANGED otpStore
        ELSE IF now > entry[1].expiresAt
        THEN /\ otpStore' = [otpStore EXCEPT ![q.email] = None]
             /\ otpReq' = [otpReq EXCEPT ![r] = None]
        ELSE /\ otpReq' = [otpReq EXCEPT ![r] = Some([q EXCEPT !.pc = "write"])]
             /\ UNCHANGED otpStore
  /\ UNCHANGED <<otpLog, accounts>>
  /\ otpFrame

\* the rest: register answers 400 for an email with an account and else
\* saves the user; reset-password updates the password; both then delete the
\* OTP and answer with success
VerifyWrite(r) ==
  /\ otpReq[r] # None
  /\ otpReq[r][1].pc = "write"
  /\ LET q == otpReq[r][1]
     IN IF q.route = "register" /\ q.email \in accounts
        THEN UNCHANGED <<otpStore, otpLog, accounts>>
        ELSE /\ Len(otpLog.used) < MaxUses
             /\ accounts' = IF q.route = "register"
                            THEN accounts \cup {q.email} ELSE accounts
             /\ otpStore' = [otpStore EXCEPT ![q.email] = None]
             /\ otpLog' = [otpLog EXCEPT !.used =
                             Append(@, [otp |-> q.otp, arrived |-> q.arrived])]
  /\ otpReq' = [otpReq EXCEPT ![r] = None]
  /\ otpFrame

\* /register goes with /send-otp, /reset-password with /send-reset-otp
NextOtp ==
  \/ \E e \in Emails : SendOtp(e)
  \/ \E r \in OtpSlots, e \in Emails, otp \in OtpCodes :
       VerifyStart(r, IF e \in accounts THEN "reset-password" ELSE "register",
                   e, otp)
  \/ \E r \in OtpSlots : VerifyCheck(r)
  \/ \E r \in OtpSlots : VerifyWrite(r)
  \/ Elapse

SpecOtp == Init /\ [][NextOtp]_vars

\* ================================================= claims C1..C10

\* the fetch of the conversation of message i by its recipient answers 200
\* and carries message i with its original text
RecipientReads(i) ==
  LET r == GetUserResult(messages[i].recipient, messages[i].sender)
  IN /\ r.code = "200"
     /\ \E k \in 1..Len(r.body) :
          r.body[k]._id = i /\ r.body[k].content = messages[i].content

LastIsDirect == messages # <<>> /\ messages[Len(messages)].recipient # NoId

\* C1: a fetch by the recipient right after a successful direct send answers
\* 200 and returns the message with the original plaintext (the claim; the
\* code stores neither iv nor auth tag and the fetch throws).
C1_RoundTrip ==
  [][(Len(messages') = Len(messages) + 1 /\ LastIsDirect')
       => RecipientReads(Len(messages))']_vars

NoneDeleted(ids) == \A k \in 1..Len(ids) : messages[ids[k]].deletedAt = None

ResultIds(r) == r.found \o [k \in 1..Len(r.body) |-> r.body[k]._id]

\* C2: no fetch, direct or group, by any requester, holds a message whose
\* deletedAt is set, in its query result or in its answer.
C2_DeletedNeverFetched ==
  /\ \A t \in Tokens, u \in UserParams : NoneDeleted(ResultIds(GetUserResult(t, u)))
  /\ \A t \in Tokens, g \in GroupParams : NoneDeleted(ResultIds(GetGroupResult(t, g)))

\* a direct and a group message are deleted, and the fetches of their
\* conversation and group by their senders answer 200 without them
C2_Witness ==
  /\ \E i \in MsgIds :
       /\ messages[i].recipient # NoId
       /\ messages[i].deletedAt # None
       /\ GetUserResult(messages[i].sender, messages[i].recipient).code = "200"
  /\ \E i \in MsgIds :
       /\ messages[i].group # NoId
       /\ messages[i].deletedAt # None
       /\ GetGroupResult(messages[i].sender, messages[i].group).code = "200"

\* C3: once deletedAt is set the message has status 'deleted' and no step
\* (markAsRead, a user delete, the sweep) changes the document (the claim;
\* markAsRead and softDelete check nothing and write again).
C3_DeleteTerminal ==
  [][\A i \in MsgIds :
       messages[i].deletedAt # None
         => messages[i].status = "deleted" /\ messages'[i] = messages[i]]_vars

\* the messages a run of the sweep is to take: not deleted, self-destructing,
\* expired
SweepEligible ==
  {i \in MsgIds :
     /\ messages[i].deletedAt = None
     /\ messages[i].isSelfDestructing
     /\ messages[i].selfDestructAt # None
     /\ messages[i].selfDestructAt[1] <= now}

\* C4: a run of the sweep takes exactly the messages that are not deleted,
\* self-destructing and expired when it starts (the claim; the query has no
\* deletedAt condition).
C4_SweepTakesEligible ==
  [][(sweep.pc = "idle" /\ sweep'.pc = "saving")
       => sweep'.found = SweepEligible]_vars

\* C5: a run of the sweep ends only when the save of the last document it
\* found has been attempted, whatever became of the saves before (the claim;
\* the first rejected save leaves the loop).
C5_SweepAttemptsAll ==
  [][(sweep.pc = "saving" /\ sweep'.pc = "idle")
       => Len(sweep.queue) = 1]_vars

\* C6: when a run of the sweep ends, every message it found not deleted has
\* status 'deleted' and a deletedAt (so no fetch returns it), but for a
\* message whose own save was rejected in this step (the claim).
C6_ExpiredGoneAfterCycle ==
  [][(sweep.pc = "saving" /\ sweep'.pc = "idle")
       => \A i \in sweep.live :
            \/ i = Head(sweep.queue) /\ messages' = messages
            \/ messages'[i].status = "deleted" /\ messages'[i].deletedAt # None]_vars

\* C7: the sweep's save of a message it loaded not deleted and that a user
\* delete has deleted since leaves deletedAt as the user delete set it (the
\* claim; softDelete stamps and writes unconditionally).
C7_SweepKeepsDeletedAt ==
  [][(sweep.pc = "saving" /\ sweep' # sweep
        /\ Head(sweep.queue) \in sweep.live
        /\ messages[Head(sweep.queue)].deletedAt # None)
       => messages'[Head(sweep.queue)].deletedAt
            = messages[Head(sweep.queue)].deletedAt]_vars

\* C8: DELETE /:messageId by an authenticated user for a message that does
\* not exist or is already deleted answers 404 (the claim; findById does not
\* look at deletedAt).
C8_DeleteOfDeletedNotFound ==
  \A t \in Users, m \in MessageParams :
    (m \notin MsgIds \/ messages[m].deletedAt # None)
      => DeleteOutcome(t, m) = "404"

MayDelete(userId, doc) ==
  \/ doc.sender = userId
  \/ doc.group # NoId /\ userId \in AdminIds(groups[doc.group])

C10_OneAddressee ==
  \A i \in MsgIds : (messages[i].recipient # NoId) # (messages[i].group # NoId)

\* a socket send without recipient has been refused in a state with a
\* stored direct message
C10_Witness ==
  /\ \E i \in MsgIds : messages[i].recipient # NoId /\ messages[i].group = NoId
  /\ PrivateMessageOutcome("u1", NoId, Some("p1"), None, None) = "error"

\* ================================================= claims C11..C20

ReceiptsOf(doc, userId) == {k \in 1..Len(doc.readBy) : doc.readBy[k].user = userId}

\* C11: markAsRead is idempotent per user: a call by a user who has a
\* receipt on the message changes nothing, a call by a user who has none
\* leaves exactly one, and whatever a step does to readBy, the receipts that
\* were there stay where they were and no user has two.
C11_MarkAsReadIdempotent ==
  [][\A i \in MsgIds :
       /\ Len(messages'[i].readBy) >= Len(messages[i].readBy)
       /\ SubSeq(messages'[i].readBy, 1, Len(messages[i].readBy))
            = messages[i].readBy
       /\ \A u \in Users :
            /\ Cardinality(ReceiptsOf(messages'[i], u)) <= 1
            /\ markAsRead(i, u)
                 => /\ Cardinality(ReceiptsOf(messages'[i], u)) = 1
                    /\ HasRead(messages[i], u) => messages' = messages]_vars

\* a message carries a receipt of each user, each after calls of markAsRead
C11_Witness ==
  \E i \in MsgIds :
    /\ Len(messages[i].readBy) = 2
    /\ \A u \in Users : HasRead(messages[i], u)

\* a group send that passes authenticate and requireGroupAccess with a text
\* and a valid self-destruct date
MemberGroupSend(r) ==
  /\ authenticate(r[1])
  /\ requireGroupAccess(r[2], r[1]) = "ok"
  /\ r[3] # None
  /\ SelfDestructDateValid(r[4], r[5])

GroupMessagesOf(g) == {i \in MsgIds : messages[i].group = g}

IsMember(userId, groupId) ==
  groupId \in GroupIds /\ userId \in MemberIds(groups[groupId])

SenderReads(i) ==
  LET r == GetUserResult(messages[i].sender, messages[i].recipient)
  IN /\ r.code = "200"
     /\ \E k \in 1..Len(r.body) :
          r.body[k]._id = i /\ r.body[k].content = messages[i].content

\* C17: after a direct send from S to another user R, the fetch of the
\* conversation by S answers 200 and returns the message with the original
\* text (the claim; the fetch has neither iv nor auth tag, and decrypts with
\* the key of S what was encrypted under the key of R).
C17_SenderReads ==
  [][(/\ Len(messages') = Len(messages) + 1
      /\ LastIsDirect'
      /\ messages'[Len(messages')].sender # messages'[Len(messages')].recipient)
       => SenderReads(Len(messages))']_vars

\* C18: every stored message has selfDestructAt set if and only if its
\* isSelfDestructing is true, whichever of true, false or nothing the send
\* gave for isSelfDestructing, with or without a selfDestructTime.
C18_SelfDestructAtIffFlag ==
  \A i \in MsgIds :
    (messages[i].selfDestructAt # None) <=> messages[i].isSelfDestructing

\* a self-destructing message and a plain one are stored, and the send with
\* isSelfDestructing true and no selfDestructTime is refused
C18_Witness ==
  /\ \E i \in MsgIds :
       messages[i].isSelfDestructing /\ messages[i].selfDestructAt # None
  /\ \E i \in MsgIds :
       ~messages[i].isSelfDestructing /\ messages[i].selfDestructAt = None
  /\ PostUserOutcome("u1", "u2", Some("p1"), Some(TRUE), None) = "500"

\* C19: the selfDestructAt of a stored message is strictly after its
\* creation time, whatever delay the send gave (the claim; the delay is
\* added as it comes, and a delay of zero gives the creation time).
C19_SelfDestructAfterCreation ==
  \A i \in MsgIds :
    messages[i].selfDestructAt # None
      => messages[i].selfDestructAt[1] > messages[i].createdAt

\* the socket ids connectedUsers.get can give: none (offline) or one
RecipientSockets == {None, Some("s1")}

\* C20: a 'privateMessage' event of an authenticated socket to a user, with
\* a text, is confirmed with 'messageSent' and never answered with 'error',
\* whether or not the recipient is connected, and 'newMessage' goes out only
\* to a connected recipient (the claim; the document has no encryptedContent,
\* save() rejects, and every such event is answered with 'error').
C20_RelayBestEffort ==
  \A e \in PrivateMessageEvents, sock \in RecipientSockets :
    (/\ e[1] \in Users
     /\ e[2] \in Users
     /\ e[3] # None
     /\ SelfDestructDateValid(e[4], e[5]))
      => PrivateMessageEmits(e[1], e[2], e[3], e[4], e[5], sock)
           = IF sock = None THEN {"messageSent"}
                            ELSE {"newMessage", "messageSent"}

\* ================================================= claims C21..C30

C22_RoundTrip ==
  (/\ crypt # None
   /\ crypt[1].result # None
   /\ crypt[1].modified = "none"
   /\ crypt[1].with = Some(crypt[1].key))
    => /\ crypt[1].result[1].ok
       /\ crypt[1].result[1].value = crypt[1].message

GrantedIn(userId, a, b) ==
  {k \in 1..Len(granted[userId]) :
     a <= granted[userId][k] /\ granted[userId][k] <= b}

\* what the limiter would return for userId now
Allows(userId) ==
  createRateLimiter(WindowMs, MaxRequests, requests, userId, now).ok

\* C24: after every step, for every user id, the calls that returned true
\* within any interval shorter than WindowMs are at most MaxRequests, and a
\* step that is neither the passing of time nor a call that returned true
\* for an id (so every call for another id) leaves the outcome for that id
\* as it was.
C24_LimiterBound ==
  [][/\ \A u \in Users, a \in 0..LimiterHorizon :
          Cardinality(GrantedIn(u, a, a + WindowMs - 1)') <= MaxRequests
     /\ \A u \in Users :
          (now' = now /\ granted'[u] = granted[u]) => Allows(u)' = Allows(u)]_vars

\* a user has been refused: MaxRequests calls returned true within the
\* window, the earliest of them not at the present time, while the other
\* user has been served in between times
C24_Witness ==
  \E u \in Users, v \in Users :
    /\ u # v
    /\ ~Allows(u)
    /\ Len(granted[u]) > MaxRequests
    /\ granted[u][Len(granted[u]) - 1] < now
    /\ Len(granted[v]) > 0

C26_FriendshipMutual ==
  (\A u \in Users : addReq[u] = None)
    => \A a \in Users :
         LET listOf(u) == {friends[u][k] : k \in 1..Len(friends[u])}
         IN /\ \A b \in Users : (b \in listOf(a)) <=> (a \in listOf(b))
            /\ a \notin listOf(a)
            /\ Cardinality(listOf(a)) = Len(friends[a])

\* the socket is connected and authenticated as the user
LiveSocketOf(s, u) ==
  sockets[s].status = "connected" /\ sockets[s].userId = Some(u)

\* C27: whenever no 'authenticate' or 'disconnect' handler is under way,
\* connectedUsers maps a user to a socket only if that socket is connected
\* and authenticated as that user, and every user with a connected
\* authenticated socket has an entry (the claim; the 'disconnect' handler
\* deletes the entry of socket.userId whichever socket the entry names, so
\* the first socket of a user going away removes the entry of the second).
C27_PresenceConsistent ==
  (\A s \in SocketIds :
     sockets[s].authenticating = None /\ ~sockets[s].disconnecting)
    => \A u \in Users :
         /\ connectedUsers[u] # None => LiveSocketOf(connectedUsers[u][1], u)
         /\ (\E s \in SocketIds : LiveSocketOf(s, u)) => connectedUsers[u] # None

\* C28: whenever no handler is under way, users has an entry for a socket
\* only if the socket is still connected, so that userList names only users
\* with a live socket (the claim; a 'disconnect' that comes while
\* 'user-online' waits for the database finds no entry and does nothing, and
\* the entry is then set for the closed socket).
C28_UserListLive ==
  (\A s \in SocketIds :
     /\ clients[s].online = None
     /\ ~clients[s].offline
     /\ ~clients[s].disconnecting)
    => /\ \A s \in SocketIds :
            users[s] # None => clients[s].status = "connected"
       /\ \A e \in userList :
            \E s \in SocketIds :
              clients[s].status = "connected" /\ users[s] = Some(e)

\* C29: every OTP sent has led to at most one request answered with
\* success, and to none that arrived after its expiresAt (the claim; two
\* /reset-password requests with the same OTP both come back from
\* bcrypt.compare before either deletes the entry, and both succeed).
C29_OtpSingleUse ==
  /\ \A i \in 1..Len(otpLog.used), j \in 1..Len(otpLog.used) :
       otpLog.used[i].otp = otpLog.used[j].otp => i = j
  /\ \A i \in 1..Len(otpLog.used) :
       otpLog.used[i].arrived <= otpLog.issued[otpLog.used[i].otp]
====
